---- MODULE Spec2Model ----
(***************************************************************************)
(* The PySD REST facade of src/main.py: a process-wide dictionary `models` *)
(* from model id to a parsed pysd model, and the endpoints that create,    *)
(* look up, run, parameterise, remove and list its entries.  The sync      *)
(* endpoints run on worker threads, so every handler is a sequence of      *)
(* steps (one per access to the shared dictionary or call into pysd) that  *)
(* interleave with the steps of the other workers.                         *)
(***************************************************************************)
EXTENDS Integers, Sequences, FiniteSets, TLC

\* ----------------------------------------------------------------- bounds
MaxParses == 2          \* parsed models created in one behaviour
MaxUuids == 1           \* uuid4 values drawn in one behaviour

Threads == {"w1", "w2"}
UserIds == {"a"}
UuidNames == <<"u1", "u2", "u3", "u4">>
Uuid(n) == UuidNames[n]
AllIds == UserIds \cup {UuidNames[i] : i \in 1..Len(UuidNames)}

\* The variables of the parsed model, and the names a client may send.
Vars == {"x"}
Names == Vars \cup {"zz"}
Values == {1}
Baseline == [v \in Vars |-> 0]

\* Optional[...] fields of the request schemas (lines 21, 26, 27).
None == <<>>
Some(v) == <<v>>

\* ------------------------------------------------------- pure helpers

\* str.lower() on the extensions the model sends.
Lower(s) ==
    CASE s = ".MDL" -> ".mdl"
      [] s = ".XMILE" -> ".xmile"
      [] OTHER -> s

\* os.path.splitext(file.filename)[1].lower()
Suffix(filename) == Lower(filename.ext)

\* suffix not in [".mdl", ".xmile"]
SuffixSupported(suffix) == suffix \in {".mdl", ".xmile"}

\* Mutant: the chain has no else branch, every fileType reaches the parser.
FileTypeSupported_Any(fileType) == TRUE

\* the if / elif chain on request.fileType
FileTypeSupported(fileType) == fileType \in {"vensim", "xmile"}

\* request.modelId or str(uuid.uuid4()): None and "" are both falsy
ModelIdGiven(modelId) == modelId # None /\ modelId # Some("")

\* request.params or {}
ParamsOrEmpty(params) == IF params = None THEN <<>> ELSE params[1]

\* models[model_id] = engine
Insert(m, id, h) == [k \in DOMAIN m \cup {id} |-> IF k = id THEN h ELSE m[k]]

\* Mutant: the entry is not deleted.
Delete_Keep(m, id) == m

\* del models[model_id]
Delete(m, id) == [k \in DOMAIN m \ {id} |-> m[k]]

\* model_id in models
Contains(m, id) == id \in DOMAIN m

\* Mutant: the copy misses one key.
ListKeys_Short(m) == IF DOMAIN m = {} THEN {} ELSE DOMAIN m \ {CHOOSE k \in DOMAIN m : TRUE}

\* list(models.keys())
ListKeys(m) == DOMAIN m

\* Status codes of the HTTPException raises.
NotFoundStatus == 404
UnsupportedStatus == 400
UploadExceptStatus == 500
LoadExceptStatus == 400
EngineExceptStatus == 500
UnhandledStatus == 500
OkStatus == 200


\* ------------------------------------------------- the pysd model object

\* The parameter mappings a client may send: name -> float.
ParamMaps == UNION {[D -> Values] : D \in SUBSET Names}

\* The returnColumns lists a client may send.
ColLists == {<<>>, <<"x">>, <<"zz">>, <<"time", "x">>, <<"x", "time">>}

\* The component values after the keys S of p have been assigned.
ApplyKeys(state, p, S) == [v \in Vars |-> IF v \in S THEN p[v] ELSE state[v]]

\* engine.set_components(p): the keys are assigned one after the other and an
\* unknown key raises, so a failing call has assigned the keys that came
\* before the unknown one (any subset of the known keys, by the dict's order).
SetComponents(state, p) ==
    IF DOMAIN p \subseteq Vars
    THEN {[ok |-> TRUE, state |-> ApplyKeys(state, p, DOMAIN p)]}
    ELSE {[ok |-> FALSE, state |-> ApplyKeys(state, p, S)] :
             S \in SUBSET (DOMAIN p \cap Vars)}

\* Every name of the returnColumns list is a variable of the model.
ColsKnown(cols) ==
    cols = None \/ \A i \in 1..Len(cols[1]) : cols[1][i] \in Vars \cup {"time"}

\* engine.run(params=p, return_columns=cols): non-empty params go through
\* set_components on the model object itself, then the columns are resolved
\* and the model is integrated from its original initial condition.
EngineRun(state, p, cols) ==
    LET sets == IF DOMAIN p = {}
                THEN {[ok |-> TRUE, state |-> state]}
                ELSE SetComponents(state, p)
    IN {[ok |-> s.ok /\ ColsKnown(cols), state |-> s.state] : s \in sets}

\* The DataFrame engine.run returns: its index holds the saved time points,
\* its columns are the names of return_columns in the order given, or the
\* model's own variables when return_columns is None.
TimePoints == <<0, 1>>
EngineOrder == <<"x">>
Columns(cols) == IF cols = None THEN EngineOrder ELSE cols[1]
Series(state, name) ==
    IF name = "time" THEN TimePoints
    ELSE [i \in 1..Len(TimePoints) |-> state[name]]

\* Line 103: results.to_dict(orient="list") has one key per column of the
\* DataFrame, in column order, each with the list of that column's values;
\* the index is not a column.
ToDict(state, cols) ==
    [i \in 1..Len(Columns(cols)) |->
        [key |-> Columns(cols)[i], values |-> Series(state, Columns(cols)[i])]]

\* ------------------------------------------------------------------ state
VARIABLES
    models,      \* the dictionary `models`: model id -> parsed model
    comps,       \* the parsed model objects: comps[h] is h's component values
    issued,      \* number of uuid4 values drawn so far
    pc,          \* each worker's position in its handler
    req,         \* each worker's request
    loc,         \* each worker's locals: model_id and engine
    res,         \* each worker's response
    called,      \* pysd calls made for each worker's current request
    removedIds,  \* ids removed by reset_model and not inserted since
    balance,     \* successful creates minus successful removes so far
    seen,        \* key sets the dictionary has had during a worker's list_models
    lastSet,     \* per id, the values of its successful set_parameters calls
    prev         \* the run answered last, while nothing but its repeat follows

vars == <<models, comps, issued, pc, req, loc, res, called,
          removedIds, balance, seen, lastSet, prev>>

NoFile == [root |-> "", ext |-> ""]
NoReq == [op |-> "none", modelId |-> None, fileType |-> "", filename |-> NoFile,
          params |-> None, returnColumns |-> None]
NoLoc == [model_id |-> "", engine |-> 0]
NoRes == [status |-> 0, cls |-> "", modelId |-> "", ids |-> {}, ranWith |-> Baseline,
          table |-> <<>>]
NoPrev == [req |-> NoReq, table |-> <<>>]

Filenames == {[root |-> "m", ext |-> e] : e \in {".mdl", ".MDL", ".xmile", ".csv", ""}}
FileTypes == {"vensim", "xmile", "csv"}

\* The ids a client can name: its own, and the generated ones it was told.
\* A uuid4 drawn by a load_model still running has been sent to nobody.
Unsent == {loc[u].model_id : u \in {w \in Threads : /\ pc[w] \in {"load_parse", "load_insert"}
                                                    /\ ~ModelIdGiven(req[w].modelId)}}
KnownIds == UserIds \cup ({Uuid(i) : i \in 1..issued} \ Unsent)

Init ==
    /\ models = <<>>
    /\ comps = <<>>
    /\ issued = 0
    /\ pc = [t \in Threads |-> "idle"]
    /\ req = [t \in Threads |-> NoReq]
    /\ loc = [t \in Threads |-> NoLoc]
    /\ res = [t \in Threads |-> NoRes]
    /\ called = [t \in Threads |-> {}]
    /\ removedIds = {}
    /\ balance = 0
    /\ seen = [t \in Threads |-> {}]
    /\ lastSet = [i \in AllIds |-> <<>>]
    /\ prev = NoPrev

\* ---------------------------------------------------------------- helpers

\* A step of request r: the run answered last is remembered only while the
\* next request repeats it.
Recall(r) == prev' = IF r = prev.req THEN prev ELSE NoPrev

\* The handler of request r ends with a response.
Finish(t, r, response) ==
    /\ pc' = [pc EXCEPT ![t] = "done"]
    /\ req' = [req EXCEPT ![t] = r]
    /\ res' = [res EXCEPT ![t] = response]
    /\ Recall(r)

\* The responses: raise HTTPException(status) for a failure of class cls, and
\* a returned body.
Fail(status, cls) == [NoRes EXCEPT !.status = status, !.cls = cls]
Ok == [NoRes EXCEPT !.status = OkStatus]

\* Every list_models in progress observes the dictionary's new key set.
Observe(m) ==
    seen' = [u \in Threads |-> IF pc[u] = "list" THEN seen[u] \cup {DOMAIN m} ELSE seen[u]]

\* A request arrives at an idle worker.
Begin(t) ==
    /\ pc[t] = "idle"
    /\ called' = [called EXCEPT ![t] = {}]

\* The handler of request r moves on to its next step.
Goto(t, label, r) ==
    /\ pc' = [pc EXCEPT ![t] = label]
    /\ req' = [req EXCEPT ![t] = r]
    /\ Recall(r)
    /\ UNCHANGED res

\* Workers that have yet to parse, and workers that have yet to draw a uuid.
PendingParses == Cardinality({u \in Threads : pc[u] \in {"upload_parse", "load_parse"}})
PendingUuids == Cardinality({u \in Threads : pc[u] \in {"upload_parse", "upload_insert"}})


\* ---------------------------------------------------------------- upload

\* except Exception as e: raise HTTPException(status_code=500, ...)
\* (HTTPException is an Exception, so the 400 raised inside is caught too).
UploadExcept(e) == [e EXCEPT !.status = UploadExceptStatus]

\* Lines 52-55: the suffix test.
UploadModel(t, in) ==
    \E f \in in.filenames :
        LET r == [NoReq EXCEPT !.op = "upload", !.filename = f] IN
        /\ Begin(t)
        /\ IF SuffixSupported(Suffix(f))
           THEN /\ Len(comps) + PendingParses < MaxParses
                /\ issued + PendingUuids < MaxUuids
                /\ Goto(t, "upload_parse", r)
           ELSE Finish(t, r, UploadExcept(Fail(UnsupportedStatus,
                                            "UnsupportedFormat")))
        /\ UNCHANGED <<models, comps, issued, loc, removedIds, balance,
                       seen, lastSet>>

\* Mutant: the parse hands out the object of an earlier parse when there is
\* one.
UploadParse_Cached(t) ==
    /\ pc[t] = "upload_parse"
    /\ called' = [called EXCEPT ![t] = @ \cup {"parse"}]
    /\ \E ok \in BOOLEAN :
        IF ok
        THEN /\ comps' = IF Len(comps) > 0 THEN comps ELSE Append(comps, Baseline)
             /\ loc' = [loc EXCEPT ![t].engine = 1]
             /\ Goto(t, "upload_insert", req[t])
        ELSE /\ Finish(t, req[t], UploadExcept(Fail(0, "ParseError")))
             /\ UNCHANGED <<comps, loc>>
    /\ UNCHANGED <<models, issued, removedIds, balance, seen, lastSet>>

\* Lines 57-66: the file is staged and pysd parses it, or raises.
UploadParse(t) ==
    /\ pc[t] = "upload_parse"
    /\ called' = [called EXCEPT ![t] = @ \cup {"parse"}]
    /\ \E ok \in BOOLEAN :
        IF ok
        THEN /\ comps' = Append(comps, Baseline)
             /\ loc' = [loc EXCEPT ![t].engine = Len(comps) + 1]
             /\ Goto(t, "upload_insert", req[t])
        ELSE /\ Finish(t, req[t], UploadExcept(Fail(0, "ParseError")))
             /\ UNCHANGED <<comps, loc>>
    /\ UNCHANGED <<models, issued, removedIds, balance, seen, lastSet>>

\* Lines 68-71: a uuid4 is drawn and the model stored under it.
UploadInsert(t) ==
    /\ pc[t] = "upload_insert"
    /\ LET id == Uuid(issued + 1) IN
        /\ issued' = issued + 1
        /\ loc' = [loc EXCEPT ![t].model_id = id]
        /\ models' = Insert(models, id, loc[t].engine)
        /\ Finish(t, req[t], [Ok EXCEPT !.modelId = id])
        /\ removedIds' = removedIds \ {id}
    /\ balance' = balance + 1
    /\ Observe(models')
    /\ UNCHANGED <<comps, called, lastSet>>

\* ------------------------------------------------------------------ load

\* except Exception as e: raise HTTPException(status_code=400, ...)
LoadExcept(e) == [e EXCEPT !.status = LoadExceptStatus]

\* Mutant: a load sent without modelId is stored under one fixed id.
LoadModelId_Default(rid, fresh) == IF ModelIdGiven(rid) THEN rid[1] ELSE "a"

\* Line 80: request.modelId or str(uuid.uuid4())
LoadModelId(rid, fresh) == IF ModelIdGiven(rid) THEN rid[1] ELSE fresh

\* Lines 80-87: model_id is chosen, then the fileType chain is entered.
LoadModel(t, in) ==
    \E rid \in in.noIds \cup {Some(i) : i \in KnownIds}, ft \in in.fileTypes :
        LET r == [NoReq EXCEPT !.op = "load", !.modelId = rid, !.fileType = ft]
            id == LoadModelId(rid, Uuid(issued + 1))
        IN
        /\ Begin(t)
        /\ loc' = [loc EXCEPT ![t].model_id = id]
        /\ IF ModelIdGiven(rid)
           THEN UNCHANGED issued
           ELSE /\ issued + PendingUuids < MaxUuids
                /\ issued' = issued + 1
        /\ IF FileTypeSupported(ft)
           THEN /\ Len(comps) + PendingParses < MaxParses
                /\ Goto(t, "load_parse", r)
           ELSE Finish(t, r, LoadExcept(Fail(UnsupportedStatus,
                                          "UnsupportedFormat")))
        /\ UNCHANGED <<models, comps, removedIds, balance, seen, lastSet>>

\* Mutant: the id is registered before the parse, with nothing parsed yet.
LoadParse_StoreFirst(t) ==
    /\ pc[t] = "load_parse"
    /\ called' = [called EXCEPT ![t] = @ \cup {"parse"}]
    /\ \E ok \in BOOLEAN :
        IF ok
        THEN /\ comps' = Append(comps, Baseline)
             /\ loc' = [loc EXCEPT ![t].engine = Len(comps) + 1]
             /\ Goto(t, "load_insert", req[t])
             /\ UNCHANGED <<models, seen>>
        ELSE /\ Finish(t, req[t], LoadExcept(Fail(0, "ParseError")))
             /\ models' = Insert(models, loc[t].model_id, 0)
             /\ Observe(models')
             /\ UNCHANGED <<comps, loc>>
    /\ UNCHANGED <<issued, removedIds, balance, lastSet>>

\* Lines 82-85: pysd parses the file at request.path, or raises.
LoadParse(t) ==
    /\ pc[t] = "load_parse"
    /\ called' = [called EXCEPT ![t] = @ \cup {"parse"}]
    /\ \E ok \in BOOLEAN :
        IF ok
        THEN /\ comps' = Append(comps, Baseline)
             /\ loc' = [loc EXCEPT ![t].engine = Len(comps) + 1]
             /\ Goto(t, "load_insert", req[t])
        ELSE /\ Finish(t, req[t], LoadExcept(Fail(0, "ParseError")))
             /\ UNCHANGED <<comps, loc>>
    /\ UNCHANGED <<models, issued, removedIds, balance, seen, lastSet>>

\* Lines 89-90: the model is stored under model_id, whatever was there.
LoadInsert(t) ==
    /\ pc[t] = "load_insert"
    /\ models' = Insert(models, loc[t].model_id, loc[t].engine)
    /\ Finish(t, req[t], [Ok EXCEPT !.modelId = loc[t].model_id])
    /\ removedIds' = removedIds \ {loc[t].model_id}
    /\ balance' = balance + 1
    /\ Observe(models')
    /\ UNCHANGED <<comps, issued, loc, called, lastSet>>

\* ------------------------------------------------------------- get_model

\* Mutant: get_model without its membership test.
GetModelCheck_NoTest(t, r) == Goto(t, "get", r)

\* Lines 42-43: the membership test of get_model, entered with request r.
GetModelCheck(t, r) ==
    IF Contains(models, r.modelId[1])
    THEN Goto(t, "get", r)
    ELSE Finish(t, r, Fail(NotFoundStatus, "NotFound"))

\* Line 44: return models[model_id]; a key deleted since the test raises
\* KeyError outside every try, which the server answers with 500.
GetModel(t) ==
    /\ pc[t] = "get"
    /\ IF Contains(models, req[t].modelId[1])
       THEN /\ loc' = [loc EXCEPT ![t].engine = models[req[t].modelId[1]]]
            /\ Goto(t, "call", req[t])
       ELSE /\ Finish(t, req[t], Fail(UnhandledStatus, "KeyError"))
            /\ UNCHANGED loc
    /\ UNCHANGED <<models, comps, issued, called, removedIds, balance,
                   seen, lastSet>>

\* ------------------------------------------------------------------- run

\* Line 97: run_model enters get_model.
RunModel(t, in) ==
    \E id \in KnownIds, p \in in.params, c \in in.returnColumns :
        /\ Begin(t)
        /\ GetModelCheck(t, [NoReq EXCEPT !.op = "run", !.modelId = Some(id),
                                          !.params = p, !.returnColumns = c])
        /\ UNCHANGED <<models, comps, issued, loc, removedIds, balance,
                       seen, lastSet>>

\* Mutant: the table is computed before the params of the run are applied.
RunCall_StaleTable(t) ==
    /\ pc[t] = "call"
    /\ req[t].op = "run"
    /\ called' = [called EXCEPT ![t] = @ \cup {"run"}]
    /\ \E o \in EngineRun(comps[loc[t].engine], ParamsOrEmpty(req[t].params),
                          req[t].returnColumns) :
        /\ comps' = [comps EXCEPT ![loc[t].engine] = o.state]
        /\ IF o.ok
           THEN Finish(t, req[t], [Ok EXCEPT !.ranWith = o.state,
                                            !.table = ToDict(comps[loc[t].engine],
                                                             req[t].returnColumns)])
           ELSE Finish(t, req[t], Fail(EngineExceptStatus,
                               "EngineFailure"))
    /\ UNCHANGED <<models, issued, loc, removedIds, balance, seen, lastSet>>

\* Lines 98-105: engine.run on the model object, any exception becomes 500.
RunCall(t) ==
    /\ pc[t] = "call"
    /\ req[t].op = "run"
    /\ called' = [called EXCEPT ![t] = @ \cup {"run"}]
    /\ \E o \in EngineRun(comps[loc[t].engine], ParamsOrEmpty(req[t].params),
                          req[t].returnColumns) :
        /\ comps' = [comps EXCEPT ![loc[t].engine] = o.state]
        /\ IF o.ok
           THEN Finish(t, req[t], [Ok EXCEPT !.ranWith = o.state,
                                            !.table = ToDict(o.state, req[t].returnColumns)])
           ELSE Finish(t, req[t], Fail(EngineExceptStatus,
                               "EngineFailure"))
    /\ UNCHANGED <<models, issued, loc, removedIds, balance, seen, lastSet>>

\* ------------------------------------------------------------ components

\* Line 110: get_components enters get_model.
GetComponents(t) ==
    \E id \in KnownIds :
        /\ Begin(t)
        /\ GetModelCheck(t, [NoReq EXCEPT !.op = "components", !.modelId = Some(id)])
        /\ UNCHANGED <<models, comps, issued, loc, removedIds, balance,
                       seen, lastSet>>

\* Lines 111-120: the four groups are read off engine.components, any
\* exception becomes 500.
ComponentsCall(t) ==
    /\ pc[t] = "call"
    /\ req[t].op = "components"
    /\ called' = [called EXCEPT ![t] = @ \cup {"components"}]
    /\ \E ok \in BOOLEAN :
        IF ok
        THEN Finish(t, req[t], Ok)
        ELSE Finish(t, req[t], Fail(EngineExceptStatus,
                            "EngineFailure"))
    /\ UNCHANGED <<models, comps, issued, loc, removedIds, balance,
                   seen, lastSet>>

\* ------------------------------------------------------------ parameters

\* The values of an id's successful set_parameters calls, newest per name.
Merge(old, p) ==
    [v \in DOMAIN old \cup DOMAIN p |-> IF v \in DOMAIN p THEN p[v] ELSE old[v]]

\* Line 125: set_parameters enters get_model.
SetParameters(t, in) ==
    \E id \in KnownIds, m \in in.parameters :
        /\ Begin(t)
        /\ GetModelCheck(t, [NoReq EXCEPT !.op = "parameters", !.modelId = Some(id),
                                          !.params = Some(m)])
        /\ UNCHANGED <<models, comps, issued, loc, removedIds, balance,
                       seen, lastSet>>

\* Mutant: the values set reach every parsed model, not the one looked up.
SetParametersCall_Global(t) ==
    /\ pc[t] = "call"
    /\ req[t].op = "parameters"
    /\ called' = [called EXCEPT ![t] = @ \cup {"set_components"}]
    /\ \E o \in SetComponents(comps[loc[t].engine], req[t].params[1]) :
        /\ comps' = [h \in DOMAIN comps |-> o.state]
        /\ IF o.ok
           THEN /\ Finish(t, req[t], Ok)
                /\ lastSet' = [lastSet EXCEPT ![req[t].modelId[1]] =
                                                  Merge(@, req[t].params[1])]
           ELSE /\ Finish(t, req[t], Fail(EngineExceptStatus,
                                  "EngineFailure"))
                /\ UNCHANGED lastSet
    /\ UNCHANGED <<models, issued, loc, removedIds, balance, seen>>

\* Lines 126-130: engine.set_components, any exception becomes 500.
SetParametersCall(t) ==
    /\ pc[t] = "call"
    /\ req[t].op = "parameters"
    /\ called' = [called EXCEPT ![t] = @ \cup {"set_components"}]
    /\ \E o \in SetComponents(comps[loc[t].engine], req[t].params[1]) :
        /\ comps' = [comps EXCEPT ![loc[t].engine] = o.state]
        /\ IF o.ok
           THEN /\ Finish(t, req[t], Ok)
                /\ lastSet' = [lastSet EXCEPT ![req[t].modelId[1]] =
                                                  Merge(@, req[t].params[1])]
           ELSE /\ Finish(t, req[t], Fail(EngineExceptStatus,
                                  "EngineFailure"))
                /\ UNCHANGED lastSet
    /\ UNCHANGED <<models, issued, loc, removedIds, balance, seen>>

\* ----------------------------------------------------------------- reset

\* Line 135: the membership test of reset_model.
ResetModel(t) ==
    \E id \in KnownIds :
        LET r == [NoReq EXCEPT !.op = "reset", !.modelId = Some(id)] IN
        /\ Begin(t)
        /\ IF Contains(models, id)
           THEN Goto(t, "del", r)
           ELSE Finish(t, r, Fail(NotFoundStatus, "NotFound"))
        /\ UNCHANGED <<models, comps, issued, loc, removedIds, balance,
                       seen, lastSet>>

\* Lines 136-137: del models[modelId]; a key deleted since the test raises
\* KeyError, which the server answers with 500.
ResetDelete(t) ==
    /\ pc[t] = "del"
    /\ LET id == req[t].modelId[1] IN
        IF Contains(models, id)
        THEN /\ models' = Delete(models, id)
             /\ Finish(t, req[t], Ok)
             /\ removedIds' = removedIds \cup {id}
             /\ balance' = balance - 1
             /\ lastSet' = [lastSet EXCEPT ![id] = <<>>]
             /\ Observe(models')
        ELSE /\ Finish(t, req[t], Fail(UnhandledStatus, "KeyError"))
             /\ UNCHANGED <<models, removedIds, balance, lastSet, seen>>
    /\ UNCHANGED <<comps, issued, loc, called>>

\* ------------------------------------------------------------------ list

\* Line 143: models.keys() makes a view of the dictionary.
ListModels(t) ==
    /\ Begin(t)
    /\ Goto(t, "list", [NoReq EXCEPT !.op = "list"])
    /\ seen' = [seen EXCEPT ![t] = {DOMAIN models}]
    /\ UNCHANGED <<models, comps, issued, loc, removedIds, balance, lastSet>>

\* Line 143: list(...) copies the keys the dictionary has at that moment.
ListCopy(t) ==
    /\ pc[t] = "list"
    /\ Finish(t, req[t], [Ok EXCEPT !.ids = ListKeys(models)])
    /\ UNCHANGED <<models, comps, issued, loc, called, removedIds, balance,
                   seen, lastSet>>

\* --------------------------------------------------------------- respond

\* The response is sent and the worker takes the next request.
Respond(t) ==
    /\ pc[t] = "done"
    /\ pc' = [pc EXCEPT ![t] = "idle"]
    /\ loc' = [loc EXCEPT ![t] = NoLoc]
    /\ res' = [res EXCEPT ![t] = NoRes]
    /\ called' = [called EXCEPT ![t] = {}]
    /\ req' = [req EXCEPT ![t] = NoReq]
    /\ seen' = [seen EXCEPT ![t] = {}]
    /\ prev' = IF req[t].op = "run" /\ res[t].status = OkStatus
               THEN [req |-> req[t], table |-> res[t].table]
               ELSE NoPrev
    /\ UNCHANGED <<models, comps, issued, removedIds, balance, lastSet>>

\* The request bodies the clients send: every file name, fileType, mapping
\* and list above when requests come one at a time, a few of them when they
\* overlap.
AnyBody == [filenames |-> Filenames,
            fileTypes |-> FileTypes,
            noIds |-> {None, Some("")},
            params |-> {None} \cup {Some(m) : m \in ParamMaps},
            returnColumns |-> {None} \cup {Some(l) : l \in ColLists},
            parameters |-> ParamMaps]
PlainBody == [filenames |-> {[root |-> "m", ext |-> e] : e \in {".MDL", ".csv"}},
              fileTypes |-> {"xmile", "csv"},
              noIds |-> {None},
              params |-> {None},
              returnColumns |-> {None},
              parameters |-> {<<>>}]

Step(t, in) ==
    \/ UploadModel(t, in) \/ UploadParse(t) \/ UploadInsert(t)
    \/ LoadModel(t, in) \/ LoadParse(t) \/ LoadInsert(t)
    \/ GetModel(t)
    \/ RunModel(t, in) \/ RunCall(t)
    \/ GetComponents(t) \/ ComponentsCall(t)
    \/ SetParameters(t, in) \/ SetParametersCall(t)
    \/ ResetModel(t) \/ ResetDelete(t)
    \/ ListModels(t) \/ ListCopy(t)
    \/ Respond(t)

Next == \E t \in Threads : Step(t, PlainBody)

Spec == Init /\ [][Next]_vars

\* One request at a time: a single worker serves every request.
NextSeq == Step("w1", AnyBody)

SpecSeq == Init /\ [][NextSeq]_vars


\* ================================================================ claims

Done(t) == pc[t] = "done"
Lookups == {"run", "components", "parameters"}
Creates == {"upload", "load"}
Classes == {"NotFound", "UnsupportedFormat", "ParseError", "DuplicateId",
            "InvalidOverride", "EngineFailure"}

\* C1: a load whose caller-supplied modelId is already in the dictionary
\* fails with DuplicateId and leaves the dictionary as it was.
C1_DuplicateIdRejected ==
    [][\A t \in Threads :
          (/\ pc[t] = "load_insert"
           /\ pc'[t] = "done"
           /\ ModelIdGiven(req[t].modelId)
           /\ Contains(models, loc[t].model_id))
          => (res'[t].cls = "DuplicateId" /\ models' = models)]_vars

\* C2: once reset_model has removed an id, and until the id is inserted
\* again, every run, components, parameters and reset request that names it
\* ends at once with 404.
C2_RemovedStaysGone ==
    [][\A t \in Threads :
          (/\ pc[t] = "idle"
           /\ req'[t].op \in Lookups \cup {"reset"}
           /\ req'[t].modelId[1] \in removedIds)
          => (/\ pc'[t] = "done"
              /\ res'[t].status = NotFoundStatus
              /\ res'[t].cls = "NotFound")]_vars

C2_Witness ==
    \E t \in Threads :
        /\ Done(t)
        /\ req[t].op = "reset"
        /\ req[t].modelId[1] \in removedIds
        /\ res[t].status = NotFoundStatus

\* C3: a load whose fileType is neither vensim nor xmile ends at once with
\* the unsupported-format failure, calls no parser and leaves the dictionary
\* as it was, with or without a modelId in the request.
C3_UnsupportedTypeRejected ==
    [][\A t \in Threads :
          (/\ pc[t] = "idle"
           /\ req'[t].op = "load"
           /\ req'[t].fileType \notin {"vensim", "xmile"})
          => (/\ pc'[t] = "done"
              /\ res'[t].cls = "UnsupportedFormat"
              /\ res'[t].status = UnsupportedStatus
              /\ called'[t] = {}
              /\ comps' = comps
              /\ models' = models)]_vars

C3_Witness ==
    \E t \in Threads :
        /\ Done(t)
        /\ req[t].op = "load"
        /\ req[t].fileType = "csv"
        /\ ModelIdGiven(req[t].modelId)
        /\ Contains(models, req[t].modelId[1])
        /\ res[t].cls = "UnsupportedFormat"

\* C4: a run, components or parameters request that names an id absent from
\* the dictionary ends at once with 404 and makes no call into pysd.
C4_AbsentIdNotFound ==
    [][\A t \in Threads :
          (/\ pc[t] = "idle"
           /\ req'[t].op \in Lookups
           /\ req'[t].modelId[1] \notin DOMAIN models)
          => (/\ pc'[t] = "done"
              /\ res'[t].status = NotFoundStatus
              /\ res'[t].cls = "NotFound"
              /\ called'[t] = {}
              /\ comps' = comps)]_vars

C4_Witness ==
    \E t \in Threads :
        /\ Done(t)
        /\ req[t].op = "parameters"
        /\ req[t].modelId[1] \notin DOMAIN models
        /\ res[t].status = NotFoundStatus
        /\ called[t] = {}

\* C5: an upload or load that ends in a failure leaves the dictionary as it
\* was, and every value of the dictionary is a model pysd has parsed.
C5_FailedCreateInsertsNothing ==
    /\ [](\A id \in DOMAIN models : models[id] \in 1..Len(comps))
    /\ [][\A t \in Threads :
            (/\ pc[t] # "done"
             /\ pc'[t] = "done"
             /\ req'[t].op \in Creates
             /\ res'[t].status # OkStatus)
            => models' = models]_vars

C5_Witness ==
    \E t \in Threads :
        /\ Done(t)
        /\ req[t].op \in Creates
        /\ res[t].cls = "ParseError"
        /\ models # <<>>

\* C6: within one operation, two failures of different classes are never
\* reported with the same status code.
C6_DistinctStatusPerClass ==
    \A t, u \in Threads :
        (/\ Done(t) /\ Done(u)
         /\ req[t].op = req[u].op
         /\ res[t].cls \in Classes /\ res[u].cls \in Classes
         /\ res[t].cls # res[u].cls)
        => res[t].status # res[u].status

\* C7: the ids list_models returns are the keys the dictionary had at one
\* moment of the request, and the dictionary never has more keys than
\* successful creates minus successful removes.
C7_ListIsSnapshot ==
    /\ \A t \in Threads : (Done(t) /\ req[t].op = "list") => res[t].ids \in seen[t]
    /\ Cardinality(DOMAIN models) <= balance

C7_Witness ==
    \E t \in Threads :
        /\ Done(t)
        /\ req[t].op = "list"
        /\ Cardinality(seen[t]) >= 2
        /\ res[t].ids # {}
        /\ removedIds # {}

\* C8: a lookup that runs while a reset of the same id is in progress either
\* obtains the model or fails with NotFound, never with anything else.
C8_LookupFoundOrNotFound ==
    \A t \in Threads :
        (Done(t) /\ req[t].op \in Lookups /\ loc[t].engine = 0)
        => (res[t].status = NotFoundStatus /\ res[t].cls = "NotFound")

\* C9: a run whose returnColumns names a variable the model does not have
\* fails with InvalidOverride without engine.run being called.
C9_UnknownColumnRejected ==
    \A t \in Threads :
        (/\ Done(t)
         /\ req[t].op = "run"
         /\ loc[t].engine # 0
         /\ ~ColsKnown(req[t].returnColumns))
        => (res[t].cls = "InvalidOverride" /\ "run" \notin called[t])

\* C10: a successful run without params on an id whose set_parameters calls
\* succeeded is integrated with, for every variable those calls set, the
\* value of the most recent of them.
C10_RunSeesSetParameters ==
    \A t \in Threads :
        (/\ Done(t)
         /\ req[t].op = "run"
         /\ res[t].status = OkStatus
         /\ DOMAIN ParamsOrEmpty(req[t].params) = {})
        => \A v \in DOMAIN lastSet[req[t].modelId[1]] :
               res[t].ranWith[v] = lastSet[req[t].modelId[1]][v]

\* The repeat of the run answered last has been answered in its turn.
Repeated(t) == Done(t) /\ req[t].op = "run" /\ prev.req = req[t]

\* C11: when a successful run on a live id is followed at once by a run
\* with the same modelId, params and returnColumns, with no set_parameters
\* or any other request in between, the second run succeeds and returns the
\* same table as the first.
C11_RepeatedRunSameTable ==
    \A t \in Threads :
        Repeated(t) => /\ res[t].status = OkStatus
                       /\ res[t].table = prev.table

\* A run with params and returnColumns has been repeated after a
\* set_parameters changed the model, and both returned a table with values.
C11_Witness ==
    \E t \in Threads :
        /\ Repeated(t)
        /\ req[t].params \notin {None, Some(<<>>)}
        /\ req[t].returnColumns # None
        /\ res[t].status = OkStatus
        /\ Len(res[t].table) = 2
        /\ lastSet[req[t].modelId[1]] # <<>>

\* An upload, or a load sent without modelId, stores its model.
GeneratedInsert(t) ==
    /\ pc'[t] = "done"
    /\ \/ pc[t] = "upload_insert"
       \/ pc[t] = "load_insert" /\ ~ModelIdGiven(req[t].modelId)

\* C12: an upload, and a load without modelId, store the model under a
\* generated id that is not a key of the dictionary at that moment: the
\* dictionary gains exactly that key and keeps every entry it had.
C12_GeneratedIdIsNew ==
    [][\A t \in Threads :
          GeneratedInsert(t) =>
              /\ res'[t].modelId \notin DOMAIN models
              /\ DOMAIN models' = DOMAIN models \cup {res'[t].modelId}
              /\ \A k \in DOMAIN models : models'[k] = models[k]]_vars

\* A model has been stored under a generated id next to another entry.
C12_Witness ==
    \E t \in Threads :
        /\ Done(t)
        /\ req[t].op \in Creates
        /\ ~ModelIdGiven(req[t].modelId)
        /\ res[t].status = OkStatus
        /\ res[t].modelId \in DOMAIN models
        /\ Cardinality(DOMAIN models) > 1

\* The keys of a table in their order, and those that are not the time axis.
Keys(table) == [i \in 1..Len(table) |-> table[i].key]
NotTime(name) == name # "time"

\* C13: the table of a successful run has the time axis as its first key,
\* then the columns of returnColumns in the order given (the engine's own
\* order when returnColumns is absent), and all its value lists have the
\* same length.
C13_TimeFirstThenColumns ==
    \A t \in Threads :
        (Done(t) /\ req[t].op = "run" /\ res[t].status = OkStatus) =>
            LET table == res[t].table IN
            /\ Len(table) > 0
            /\ table[1].key = "time"
            /\ SelectSeq(Tail(Keys(table)), NotTime) =
                   SelectSeq(Columns(req[t].returnColumns), NotTime)
            /\ \A i, j \in 1..Len(table) :
                   Len(table[i].values) = Len(table[j].values)

\* The dictionary differs after the step: in its keys or in a key's model.
RegistryChanged ==
    \/ DOMAIN models' # DOMAIN models
    \/ \E k \in DOMAIN models : models'[k] # models[k]

\* The step is worker t's successful create: it adds one id and no more.
CreateAddsOne(t) ==
    /\ req[t].op \in Creates
    /\ res'[t].modelId \notin DOMAIN models
    /\ DOMAIN models' = DOMAIN models \cup {res'[t].modelId}
    /\ \A k \in DOMAIN models : models'[k] = models[k]

\* The step is worker t's successful reset: it removes the named id only.
RemoveTakesOne(t) ==
    /\ req[t].op = "reset"
    /\ req[t].modelId[1] \in DOMAIN models
    /\ DOMAIN models' = DOMAIN models \ {req[t].modelId[1]}
    /\ \A k \in DOMAIN models' : models'[k] = models[k]

\* C14: the dictionary changes only in a step that ends a create with
\* success, adding one id, or ends a reset with success, removing exactly
\* the id named; run, components, parameters, list and every failed request
\* leave its keys and their models as they were.
C14_OnlyCreateAndRemoveChange ==
    [][RegistryChanged =>
          \E t \in Threads :
              /\ pc[t] # "done"
              /\ pc'[t] = "done"
              /\ res'[t].status = OkStatus
              /\ CreateAddsOne(t) \/ RemoveTakesOne(t)]_vars

\* C15: no two distinct keys of the dictionary hold the same model object:
\* every create stores the object its own parse call returned, under one id.
C15_NoSharedHandle ==
    \A i, j \in DOMAIN models : i # j => models[i] # models[j]

\* A load with a modelId of its own has stored its model next to another.
C15_Witness ==
    \E t \in Threads :
        /\ Done(t)
        /\ req[t].op = "load"
        /\ ModelIdGiven(req[t].modelId)
        /\ res[t].status = OkStatus
        /\ \E k \in DOMAIN models :
               k # res[t].modelId /\ res[t].modelId \in DOMAIN models

\* C16: of two resets of one live id that overlap, the one that deletes
\* first succeeds and the other, finding the id gone, ends with NotFound:
\* a reset that has passed its membership test ends with success when the
\* id is still a key and with NotFound when another reset has deleted it,
\* never with any other failure.
C16_ConcurrentResetOneWins ==
    [][\A t \in Threads :
          (pc[t] = "del" /\ pc'[t] = "done") =>
              IF Contains(models, req[t].modelId[1])
              THEN res'[t].status = OkStatus /\ res'[t].cls = ""
              ELSE res'[t].status = NotFoundStatus /\ res'[t].cls = "NotFound"]_vars

\* C17: the engine call of a set_parameters or a run on one id changes the
\* component values of no model stored under another id, so a run on that
\* other id returns what it would have returned without the call.
C17_OtherModelsUntouched ==
    [][\A t \in Threads :
          (/\ pc[t] = "call"
           /\ req[t].op \in {"run", "parameters"}
           /\ pc'[t] = "done") =>
              \A b \in DOMAIN models \ {req[t].modelId[1]} :
                  /\ comps'[models[b]] = comps[models[b]]
                  /\ \A c \in {k \in {None} \cup {Some(l) : l \in ColLists} :
                                 ColsKnown(k)} :
                         ToDict(comps'[models[b]], c) = ToDict(comps[models[b]], c)]_vars

\* A set_parameters has changed one model while another id holds a model
\* whose values differ from it.
C17_Witness ==
    \E t \in Threads :
        /\ Done(t)
        /\ req[t].op = "parameters"
        /\ res[t].status = OkStatus
        /\ req[t].params # Some(<<>>)
        /\ req[t].modelId[1] \in DOMAIN models
        /\ \E b \in DOMAIN models \ {req[t].modelId[1]} :
               comps[models[b]] # comps[models[req[t].modelId[1]]]

\* The tables a run without params returns on a model with these values,
\* per returnColumns.
PlainRunTables(state) ==
    [c \in {k \in {None} \cup {Some(l) : l \in ColLists} : ColsKnown(k)} |->
        {ToDict(o.state, c) : o \in EngineRun(state, ParamsOrEmpty(None), c)}]

\* C18: the params of a run apply to that run only: after a successful run
\* with params, a run without params returns the table it returned before
\* that run.
C18_ParamsLastOneRun ==
    [][\A t \in Threads :
          (/\ pc[t] = "call"
           /\ req[t].op = "run"
           /\ pc'[t] = "done"
           /\ res'[t].status = OkStatus) =>
              PlainRunTables(comps'[loc[t].engine]) =
                  PlainRunTables(comps[loc[t].engine])]_vars

====
